---- MODULE Spec2Model ----
(***************************************************************************)
(* sqlite_to_parquet (src/research/db_to_parquet.py): the chunked,         *)
(* optionally partitioned export of one SQLite table to Parquet files.     *)
(*                                                                         *)
(* run_single_backtest and run_search (src/search_factor.py): one backtest *)
(* subprocess with its log file, and the sweep over the task list.  Each   *)
(* of the three has its own variables and its own specification (Spec,     *)
(* SpecBacktest, SpecSearch); the variables of the other two stay idle.    *)
(*                                                                         *)
(* A row is identified by its rowid, its index in tbl; query results and   *)
(* file contents are sequences of rowids.  A value is a record [t, s]: its *)
(* SQLite storage class and the text Python's str() gives for it.          *)
(***************************************************************************)
EXTENDS Integers, Sequences, FiniteSets, TLC

\* Bounds of the model.
MaxRows == 3
MaxChunk == 2
MaxLines == 2
MaxBad == 1

VARIABLES
    db_exists,              \* os.path.exists(db_path)
    out_is_file,            \* output_path already exists as a regular file
    tbl,                    \* the table's rows, in rowid order
    partition_cols,         \* the partition columns, <<>> when unpartitioned
    chunksize,
    order_by,               \* the sort columns, <<>> when none
    pc,                     \* position in sqlite_to_parquet
    conn,                   \* "none" | "open" | "closed"
    connOpens, connCloses,  \* calls of sqlite3.connect and conn.close
    queries,                \* the queries issued so far, in order
    distinct_combinations,  \* the DISTINCT result, a sequence of keys
    idx,                    \* index of the combo the for loop is at
    result,                 \* rowids of the running SELECT's result set
    pos,                    \* rows of result the cursor has handed out
    iter,                   \* the chunk iterator: "fresh" | "read" | "closed"
    writer,                 \* 0 for None, else an index into writers
    writers,                \* every ParquetWriter constructed, in order
    files,                  \* path -> rowids in the file at that path
    dirs,                   \* directories made by os.makedirs
    part_rows, total_rows,
    partLog,                \* the "Dumped" log lines: [key, path, rows]
    errLog,                 \* the logging.error lines
    exc,                    \* the exception in flight, "none" if none
    raised                  \* the exception that left the function

\* run_single_backtest.
VARIABLES
    bt_pc,                  \* position in run_single_backtest
    log_file,               \* <<>> when absent, else <<[by, text]>>
    bt_result,              \* the FactorResult: status, ic, records, error_message
    bt_proc,                \* what subprocess.run did: "none" | "returned" | "timeout" | "oserror"
    bt_exc                  \* the exception in flight in run_single_backtest

\* run_search.
VARIABLES
    config,                 \* the SearchConfig's lists
    tasks,                  \* generate_tasks(config)
    rs_pc,                  \* position in run_search
    rs_i,                   \* the loop index i of enumerate(tasks)
    results,                \* the results list
    output_file,            \* <<>> before the first save, else <<rows of the CSV>>
    saves                   \* len(results) at every call of save_results

backtestVars == <<bt_pc, log_file, bt_result, bt_proc, bt_exc>>
searchVars == <<config, tasks, rs_pc, rs_i, results, output_file, saves>>
sweepVars == <<backtestVars, searchVars>>

inputs == <<db_exists, out_is_file, tbl, partition_cols, chunksize, order_by>>
exportVars == <<db_exists, out_is_file, tbl, partition_cols, chunksize, order_by,
          pc, conn, connOpens, connCloses, queries, distinct_combinations,
          idx, result, pos, iter, writer, writers, files, dirs, part_rows,
          total_rows, partLog, errLog, exc, raised>>
vars == <<exportVars, backtestVars, searchVars>>

-----------------------------------------------------------------------------
\* Values and the table.

NULL == [t |-> "null", s |-> "None"]
Int1 == [t |-> "int", s |-> "1"]
Txt1 == [t |-> "text", s |-> "1"]

Columns == {"p", "v"}
PVals == {Int1, Txt1, NULL}
VVals == {Int1, NULL}
Rows == [p : PVals, v : VVals]

SeqsUpTo(S, n) == UNION {[1..k -> S] : k \in 0..n}

Min(a, b) == IF a < b THEN a ELSE b

\* Python's str(val), as the f-string of the path segment formats it.
PyStr(val) == val.s

\* SQLite's "col = ?" on a column without type affinity: NULL equals nothing,
\* and an integer never equals a text.
SqlEq(a, b) == a.t # "null" /\ b.t # "null" /\ a = b

\* SQLite's ORDER BY rank of a storage class: NULL < INTEGER < TEXT.
SortRank(val) == CASE val.t = "null" -> 0 [] val.t = "int" -> 1 [] OTHER -> 2

Key(row, cols) == [k \in 1..Len(cols) |-> row[cols[k]]]

-----------------------------------------------------------------------------
\* The source engine: SELECT, WHERE, ORDER BY, DISTINCT.

AllIds == [i \in 1..Len(tbl) |-> i]

\* WHERE col1 = ? AND col2 = ? ..., bound to key (lines 70-72, 76).
MatchesKey(i, cols, key) == \A k \in 1..Len(cols) : SqlEq(tbl[i][cols[k]], key[k])

SelectWhere(cols, key) == SelectSeq(AllIds, LAMBDA i : MatchesKey(i, cols, key))

\* Row a sorts strictly before row b under ORDER BY cols.
RowLess(a, b, cols) ==
    \E k \in 1..Len(cols) :
        /\ \A m \in 1..(k - 1) : SortRank(a[cols[m]]) = SortRank(b[cols[m]])
        /\ SortRank(a[cols[k]]) < SortRank(b[cols[k]])

\* i put into the sorted s behind every element that does not sort after it:
\* rows with equal sort keys keep their rowid order.
InsertSorted(s, i, cols) ==
    LET k == Cardinality({j \in 1..Len(s) : ~RowLess(tbl[i], tbl[s[j]], cols)})
    IN  SubSeq(s, 1, k) \o <<i>> \o SubSeq(s, k + 1, Len(s))

RECURSIVE SortIds(_, _)
SortIds(ids, cols) ==
    IF ids = <<>> THEN <<>>
    ELSE InsertSorted(SortIds(SubSeq(ids, 1, Len(ids) - 1), cols), ids[Len(ids)], cols)

\* The order clause of lines 34-39: no ORDER BY leaves the rowid order.
OrderClause(ids) == IF order_by = <<>> THEN ids ELSE SortIds(ids, order_by)

\* SELECT * FROM table WHERE ... ORDER BY ... of line 78.
PartitionQuery(key) == OrderClause(SelectWhere(partition_cols, key))

\* SELECT * FROM table ORDER BY ... of line 114.
FullQuery == OrderClause(AllIds)

\* SELECT DISTINCT cols FROM table: each key once, in order of first
\* appearance; DISTINCT takes two NULLs for the same value.
RECURSIVE DistinctUpTo(_, _)
DistinctUpTo(n, cols) ==
    IF n = 0 THEN <<>>
    ELSE LET prev == DistinctUpTo(n - 1, cols)
             key == Key(tbl[n], cols)
         IN  IF \E j \in 1..Len(prev) : prev[j] = key THEN prev
             ELSE Append(prev, key)

SelectDistinct(cols) == DistinctUpTo(Len(tbl), cols)

-----------------------------------------------------------------------------
\* Paths.

OutputPath == "out"

\* f"{col}={val}" of line 74.
PathPart(col, val) == col \o "=" \o PyStr(val)

PathParts(cols, key) == [k \in 1..Len(cols) |-> PathPart(cols[k], key[k])]

\* os.path.join(base, *parts).
RECURSIVE PathJoin(_, _)
PathJoin(base, parts) ==
    IF parts = <<>> THEN base
    ELSE PathJoin(base \o "/" \o Head(parts), Tail(parts))

PartitionDir(key) == PathJoin(OutputPath, PathParts(partition_cols, key))

FilePath(key) == PathJoin(PartitionDir(key), <<"data.parquet">>)

\* The directories os.makedirs(PartitionDir(key)) leaves in place.
MadeDirs(key) ==
    LET parts == PathParts(partition_cols, key)
    IN  {PathJoin(OutputPath, SubSeq(parts, 1, k)) : k \in 0..Len(parts)}

-----------------------------------------------------------------------------
\* Chunks and their schema.

\* cursor.fetchmany(n) behind pd.read_sql_query(..., chunksize=n): the next n
\* rows for n >= 1.  For n <= 0 the outcome depends on the sqlite3 build:
\* all the remaining rows, or none.
FetchOutcomes(n) ==
    IF n >= 1 THEN {SubSeq(result, pos + 1, Min(pos + n, Len(result)))}
    ELSE {SubSeq(result, pos + 1, Len(result)), <<>>}

\* The Arrow type pa.Table.from_pandas gives a chunk's column holding the
\* values vals: the type is inferred again for every chunk.
ColType(vals) ==
    LET ts == {x.t : x \in vals}
    IN  IF ts \subseteq {"null"} THEN "null"
        ELSE IF {"int", "text"} \subseteq ts THEN "error"
        ELSE IF "text" \in ts THEN "string"
        ELSE IF "null" \in ts THEN "double"
        ELSE "int64"

ChunkSchema(chunk) ==
    [c \in Columns |-> ColType({tbl[chunk[i]][c] : i \in 1..Len(chunk)})]

\* pa.Table.from_pandas raises on a column mixing integers and text.
ConvertFails(chunk) == \E c \in Columns : ChunkSchema(chunk)[c] = "error"

\* write_table without its schema check: any table is taken.
SchemaAcceptedUnchecked(schema, chunk) == TRUE

\* writer.write_table(table) takes the table only when its schema is the one
\* the writer was constructed with, and raises ValueError otherwise.
SchemaAccepted(schema, chunk) == schema = ChunkSchema(chunk)

\* The chunk loop without its "if chunk.empty: continue".
ChunkEmptyNeverSkips(chunk) == FALSE

\* chunk.empty of lines 90 and 120.
ChunkEmpty(chunk) == Len(chunk) = 0

NewWriter(path, schema, scope) ==
    [path |-> path, schema |-> schema, scope |-> scope, rows |-> <<>>,
     batches |-> <<>>, open |-> TRUE, closes |-> 0]

-----------------------------------------------------------------------------
\* The variables of a function that is not running.

BacktestIdle ==
    /\ bt_pc = "idle"
    /\ log_file = <<>>
    /\ bt_result = <<>>
    /\ bt_proc = "none"
    /\ bt_exc = "none"

SearchIdle ==
    /\ config = <<>>
    /\ tasks = <<>>
    /\ rs_pc = "idle"
    /\ rs_i = 0
    /\ results = <<>>
    /\ output_file = <<>>
    /\ saves = <<>>

ExportIdle ==
    /\ db_exists = FALSE
    /\ out_is_file = FALSE
    /\ tbl = <<>>
    /\ partition_cols = <<>>
    /\ chunksize = 0
    /\ order_by = <<>>
    /\ pc = "idle"
    /\ conn = "none"
    /\ connOpens = 0
    /\ connCloses = 0
    /\ queries = <<>>
    /\ distinct_combinations = <<>>
    /\ idx = 0
    /\ result = <<>>
    /\ pos = 0
    /\ iter = "closed"
    /\ writer = 0
    /\ writers = <<>>
    /\ files = [f \in {} |-> <<>>]
    /\ dirs = {}
    /\ part_rows = 0
    /\ total_rows = 0
    /\ partLog = <<>>
    /\ errLog = <<>>
    /\ exc = "none"
    /\ raised = "none"

-----------------------------------------------------------------------------
\* The state before the call.

Init ==
    /\ BacktestIdle
    /\ SearchIdle
    /\ db_exists \in BOOLEAN
    /\ out_is_file \in BOOLEAN
    /\ tbl \in (IF db_exists THEN SeqsUpTo(Rows, MaxRows) ELSE {<<>>})
    /\ partition_cols \in {<<>>, <<"p">>, <<"p", "v">>, <<"x">>}
    /\ chunksize \in 0..MaxChunk
    /\ order_by \in {<<>>, <<"v">>}
    /\ pc = "start"
    /\ conn = "none"
    /\ connOpens = 0
    /\ connCloses = 0
    /\ queries = <<>>
    /\ distinct_combinations = <<>>
    /\ idx = 0
    /\ result = <<>>
    /\ pos = 0
    /\ iter = "closed"
    /\ writer = 0
    /\ writers = <<>>
    /\ files = [f \in {} |-> <<>>]
    /\ dirs = {}
    /\ part_rows = 0
    /\ total_rows = 0
    /\ partLog = <<>>
    /\ errLog = <<>>
    /\ exc = "none"
    /\ raised = "none"

-----------------------------------------------------------------------------
\* Steps shared by the two chunk loops.

\* The exception statement raises: control goes to the except clause.
Raise(e) == exc' = e /\ pc' = "except"

\* Lines 93-96 (and 123-128) for one non-empty chunk: convert it, open the
\* writer on the scope's first chunk, write the table.  ParquetWriter creates
\* or truncates the file at path; write_table raises ValueError when the
\* table's schema is not the writer's.
ConvertAndWrite(chunk, path, scope) ==
    IF ConvertFails(chunk)
    THEN /\ Raise("ArrowInvalid")
         /\ UNCHANGED <<writer, writers, files>>
    ELSE LET first == writer = 0
             ws == IF first
                   THEN Append(writers, NewWriter(path, ChunkSchema(chunk), scope))
                   ELSE writers
             w == IF first THEN Len(ws) ELSE writer
             fs == IF first THEN (path :> <<>>) @@ files ELSE files
         IN  /\ writer' = w
             /\ IF ~SchemaAccepted(ws[w].schema, chunk)
                THEN /\ Raise("ValueError")
                     /\ writers' = ws
                     /\ files' = fs
                ELSE /\ writers' = [ws EXCEPT ![w].rows = @ \o chunk,
                                              ![w].batches = Append(@, chunk)]
                     /\ files' = [fs EXCEPT ![ws[w].path] = @ \o chunk]
                     /\ UNCHANGED <<pc, exc>>

\* Whether ConvertAndWrite(chunk, ...) writes the chunk.
Written(chunk) ==
    /\ ~ConvertFails(chunk)
    /\ writer # 0 => SchemaAccepted(writers[writer].schema, chunk)

\* The rows one scope's chunk loop writes of the result set res from position
\* at on with chunk size n >= 1, the writer opened or not and its schema: the
\* loop of lines 89-97 run to its end or to the first chunk that raises.
RECURSIVE LoopWrites(_, _, _, _, _)
LoopWrites(res, n, at, opened, schema) ==
    IF at >= Len(res) THEN <<>>
    ELSE LET chunk == SubSeq(res, at + 1, Min(at + n, Len(res)))
         IN  IF ConvertFails(chunk) THEN <<>>
             ELSE IF opened /\ ~SchemaAccepted(schema, chunk) THEN <<>>
             ELSE chunk \o LoopWrites(res, n, at + n, TRUE,
                                      IF opened THEN schema ELSE ChunkSchema(chunk))

\* The scope's loop raises with chunk size n: it does not reach the end of res.
LoopRaises(res, n) == LoopWrites(res, n, 0, FALSE, <<>>) # res

\* The rows the export writes for combo k with chunk size n: nothing once an
\* earlier combo's loop has raised (the except clause of line 138 ends the for
\* loop).
PartitionWrites(k, n) ==
    LET keys == SelectDistinct(partition_cols)
    IN  IF \E j \in 1..(k - 1) : LoopRaises(PartitionQuery(keys[j]), n) THEN <<>>
        ELSE LoopWrites(PartitionQuery(keys[k]), n, 0, FALSE, <<>>)

FullWrites(n) == LoopWrites(FullQuery, n, 0, FALSE, <<>>)

\* writer.close() under "if writer:" (lines 99-100 and 132-133).
CloseWriter ==
    writers' = IF writer = 0 THEN writers
               ELSE [writers EXCEPT ![writer].open = FALSE,
                                    ![writer].closes = @ + 1]

-----------------------------------------------------------------------------
\* The steps of sqlite_to_parquet.

\* Start without the existence check of lines 26-27: sqlite3.connect is
\* called whether the file exists or not.
StartWithoutExistenceCheck ==
    /\ pc = "start"
    /\ conn' = "open"
    /\ connOpens' = connOpens + 1
    /\ pc' = "try"
    /\ UNCHANGED <<sweepVars, inputs, connCloses, queries, distinct_combinations, idx,
                   result, pos, iter, writer, writers, files, dirs, part_rows,
                   total_rows, partLog, errLog, exc, raised>>

\* Lines 25-30: the existence check, then sqlite3.connect.
Start ==
    /\ pc = "start"
    /\ IF ~db_exists
       THEN /\ raised' = "FileNotFoundError"
            /\ pc' = "raised"
            /\ UNCHANGED <<conn, connOpens>>
       ELSE /\ conn' = "open"
            /\ connOpens' = connOpens + 1
            /\ pc' = "try"
            /\ UNCHANGED raised
    /\ UNCHANGED <<sweepVars, inputs, connCloses, queries, distinct_combinations, idx,
                   result, pos, iter, writer, writers, files, dirs, part_rows,
                   total_rows, partLog, errLog, exc>>

\* Lines 41-58: the DISTINCT query, then os.makedirs(output_path).
Discover ==
    /\ pc = "try"
    /\ partition_cols # <<>>
    /\ queries' = Append(queries, [kind |-> "distinct", key |-> <<>>])
    /\ IF \E k \in 1..Len(partition_cols) : partition_cols[k] \notin Columns
       THEN /\ Raise("OperationalError")
            /\ UNCHANGED <<distinct_combinations, idx, dirs, total_rows>>
       ELSE /\ distinct_combinations' = SelectDistinct(partition_cols)
            /\ IF out_is_file
               THEN /\ Raise("FileExistsError")
                    /\ UNCHANGED <<idx, dirs, total_rows>>
               ELSE /\ dirs' = dirs \cup {OutputPath}
                    /\ total_rows' = 0
                    /\ idx' = 1
                    /\ pc' = "for_combo"
                    /\ UNCHANGED exc
    /\ UNCHANGED <<sweepVars, inputs, conn, connOpens, connCloses, result, pos, iter,
                   writer, writers, files, part_rows, partLog, errLog, raised>>

\* Lines 59-89: the next combo's filter, path and directory, the writer and
\* the row count reset, and the filtered query started.
BeginPartition ==
    /\ pc = "for_combo"
    /\ idx <= Len(distinct_combinations)
    /\ LET combo == distinct_combinations[idx]
       IN  /\ dirs' = dirs \cup MadeDirs(combo)
           /\ queries' = Append(queries, [kind |-> "select", key |-> combo])
           /\ result' = PartitionQuery(combo)
    /\ writer' = 0
    /\ part_rows' = 0
    /\ pos' = 0
    /\ iter' = "fresh"
    /\ pc' = "part_loop"
    /\ UNCHANGED <<sweepVars, inputs, conn, connOpens, connCloses, distinct_combinations,
                   idx, writers, files, total_rows, partLog, errLog, exc, raised>>

\* Lines 89-97: one turn of the partition's chunk loop.  The iterator of
\* read_sql_query yields one empty frame for an empty result set and stops
\* at the first empty fetch after that.
PartitionChunk ==
    /\ pc = "part_loop"
    /\ \E data \in FetchOutcomes(chunksize) :
        IF iter = "closed" \/ (data = <<>> /\ iter = "read")
        THEN /\ pc' = "part_end"
             /\ iter' = "closed"
             /\ UNCHANGED <<pos, writer, writers, files, part_rows, exc>>
        ELSE /\ iter' = IF data = <<>> THEN "closed" ELSE "read"
             /\ pos' = pos + Len(data)
             /\ IF ChunkEmpty(data)
                THEN UNCHANGED <<pc, writer, writers, files, part_rows, exc>>
                ELSE /\ ConvertAndWrite(data, FilePath(distinct_combinations[idx]), idx)
                     /\ part_rows' = IF Written(data) THEN part_rows + Len(data)
                                     ELSE part_rows
    /\ UNCHANGED <<sweepVars, inputs, conn, connOpens, connCloses, queries,
                   distinct_combinations, idx, result, dirs, total_rows,
                   partLog, errLog, raised>>

\* Lines 99-103: close the writer if one was opened, add up, log.
EndPartition ==
    /\ pc = "part_end"
    /\ CloseWriter
    /\ total_rows' = total_rows + part_rows
    /\ partLog' = Append(partLog, [key |-> distinct_combinations[idx],
                                   parts |-> PathParts(partition_cols, distinct_combinations[idx]),
                                   rows |-> part_rows])
    /\ idx' = idx + 1
    /\ pc' = "for_combo"
    /\ UNCHANGED <<sweepVars, inputs, conn, connOpens, connCloses, queries,
                   distinct_combinations, result, pos, iter, writer, files,
                   dirs, part_rows, errLog, exc, raised>>

\* Line 105: the for loop is over.
FinishPartitioned ==
    /\ pc = "for_combo"
    /\ idx > Len(distinct_combinations)
    /\ pc' = "finally"
    /\ UNCHANGED <<sweepVars, inputs, conn, connOpens, connCloses, queries,
                   distinct_combinations, idx, result, pos, iter, writer,
                   writers, files, dirs, part_rows, total_rows, partLog,
                   errLog, exc, raised>>

\* Lines 107-119: the parent directory, the unfiltered query.
BeginFull ==
    /\ pc = "try"
    /\ partition_cols = <<>>
    /\ dirs' = dirs \cup {"."}
    /\ queries' = Append(queries, [kind |-> "select", key |-> <<>>])
    /\ result' = FullQuery
    /\ writer' = 0
    /\ total_rows' = 0
    /\ pos' = 0
    /\ iter' = "fresh"
    /\ pc' = "full_loop"
    /\ UNCHANGED <<sweepVars, inputs, conn, connOpens, connCloses, distinct_combinations,
                   idx, writers, files, part_rows, partLog, errLog, exc, raised>>

\* Lines 119-130: one turn of the full dump's chunk loop.
FullChunk ==
    /\ pc = "full_loop"
    /\ \E data \in FetchOutcomes(chunksize) :
        IF iter = "closed" \/ (data = <<>> /\ iter = "read")
        THEN /\ pc' = "full_end"
             /\ iter' = "closed"
             /\ UNCHANGED <<pos, writer, writers, files, total_rows, exc>>
        ELSE /\ iter' = IF data = <<>> THEN "closed" ELSE "read"
             /\ pos' = pos + Len(data)
             /\ IF ChunkEmpty(data)
                THEN UNCHANGED <<pc, writer, writers, files, total_rows, exc>>
                ELSE /\ ConvertAndWrite(data, OutputPath, 0)
                     /\ total_rows' = IF Written(data) THEN total_rows + Len(data)
                                      ELSE total_rows
    /\ UNCHANGED <<sweepVars, inputs, conn, connOpens, connCloses, queries,
                   distinct_combinations, idx, result, dirs, part_rows,
                   partLog, errLog, raised>>

\* Lines 132-136: close the writer if one was opened.
EndFull ==
    /\ pc = "full_end"
    /\ CloseWriter
    /\ pc' = "finally"
    /\ UNCHANGED <<sweepVars, inputs, conn, connOpens, connCloses, queries,
                   distinct_combinations, idx, result, pos, iter, writer,
                   files, dirs, part_rows, total_rows, partLog, errLog, exc,
                   raised>>

\* HandleError as a handler inside the for loop would be: the error is logged
\* and the loop goes on with the next combo.
HandleErrorPerPartition ==
    /\ pc = "except"
    /\ errLog' = Append(errLog, exc)
    /\ exc' = "none"
    /\ IF idx >= 1
       THEN pc' = "for_combo" /\ idx' = idx + 1
       ELSE pc' = "finally" /\ idx' = idx
    /\ UNCHANGED <<sweepVars, inputs, conn, connOpens, connCloses, queries,
                   distinct_combinations, result, pos, iter, writer,
                   writers, files, dirs, part_rows, total_rows, partLog,
                   raised>>

\* Lines 138-141: the one except clause of the function logs the error.
HandleError ==
    /\ pc = "except"
    /\ errLog' = Append(errLog, exc)
    /\ exc' = "none"
    /\ pc' = "finally"
    /\ UNCHANGED <<sweepVars, inputs, conn, connOpens, connCloses, queries,
                   distinct_combinations, idx, result, pos, iter, writer,
                   writers, files, dirs, part_rows, total_rows, partLog,
                   raised>>

\* Finally with conn.close() as the last statement of the try body instead of
\* a finally clause: an error skips it.
FinallyCloseAfterSuccessOnly ==
    /\ pc = "finally"
    /\ conn' = IF errLog = <<>> THEN "closed" ELSE conn
    /\ connCloses' = IF errLog = <<>> THEN connCloses + 1 ELSE connCloses
    /\ pc' = "returned"
    /\ UNCHANGED <<sweepVars, inputs, connOpens, queries, distinct_combinations, idx,
                   result, pos, iter, writer, writers, files, dirs, part_rows,
                   total_rows, partLog, errLog, exc, raised>>

\* Lines 142-143: conn.close(), then the function returns.
Finally ==
    /\ pc = "finally"
    /\ conn' = "closed"
    /\ connCloses' = connCloses + 1
    /\ pc' = "returned"
    /\ UNCHANGED <<sweepVars, inputs, connOpens, queries, distinct_combinations, idx,
                   result, pos, iter, writer, writers, files, dirs, part_rows,
                   total_rows, partLog, errLog, exc, raised>>

Next ==
    \/ Start
    \/ Discover
    \/ BeginPartition
    \/ PartitionChunk
    \/ EndPartition
    \/ FinishPartitioned
    \/ BeginFull
    \/ FullChunk
    \/ EndFull
    \/ HandleError
    \/ Finally

Spec == Init /\ [][Next]_vars

-----------------------------------------------------------------------------
\* What the properties below speak of.

Returned == pc = "returned"

ColumnsExist == \A k \in 1..Len(partition_cols) : partition_cols[k] \in Columns

Partitioned == partition_cols # <<>>

\* A job the export can run: the source and the partition columns exist, the
\* output root can be a directory, the chunk size is positive.
ValidJob ==
    /\ db_exists
    /\ ColumnsExist
    /\ Partitioned => ~out_is_file
    /\ chunksize >= 1

Keys == IF Partitioned /\ ColumnsExist THEN SelectDistinct(partition_cols) ELSE <<>>

\* The rows scope k's writer was given, in write order: the concatenation of
\* its chunks (scope 0 is the unpartitioned export).
WrittenBy(k) ==
    IF \E i \in 1..Len(writers) : writers[i].scope = k
    THEN writers[CHOOSE i \in 1..Len(writers) : writers[i].scope = k].rows
    ELSE <<>>

SeqRange(q) == {q[i] : i \in 1..Len(q)}

RECURSIVE SumRows(_)
SumRows(log) == IF log = <<>> THEN 0 ELSE Head(log).rows + SumRows(Tail(log))

\* The step-by-step loops and LoopWrites describe the same export.
StepsAgreeWithLoopWrites ==
    (Returned /\ ValidJob) =>
        IF Partitioned
        THEN \A k \in 1..Len(Keys) : WrittenBy(k) = PartitionWrites(k, chunksize)
        ELSE WrittenBy(0) = FullWrites(chunksize)

-----------------------------------------------------------------------------
\* C1: once the call has returned, for every chunk size >= 1 and every table,
\* the chunks written for a scope (the whole table, or one partition key),
\* concatenated in write order, are the full result set of the scope's SELECT:
\* every row once, none dropped.
C1_ChunksEqualSelect ==
    (Returned /\ ValidJob) =>
        IF Partitioned
        THEN \A k \in 1..Len(Keys) : WrittenBy(k) = PartitionQuery(Keys[k])
        ELSE WrittenBy(0) = FullQuery

\* C2: in partitioned mode, after a run that reported no error, the rows in
\* the partition files together are all the rows of the table (NULL partition
\* values included), and no row is in two files.
C2_FilesPartitionTable ==
    (Returned /\ ValidJob /\ Partitioned /\ errLog = <<>>) =>
        /\ UNION {SeqRange(files[f]) : f \in DOMAIN files} = 1..Len(tbl)
        /\ \A f, g \in DOMAIN files :
              f # g => SeqRange(files[f]) \cap SeqRange(files[g]) = {}
        /\ \A f \in DOMAIN files :
              \A i, j \in 1..Len(files[f]) : i # j => files[f][i] # files[f][j]

\* The combo whose export raised, when the error was raised inside the for
\* loop over the combos.
PartitionFailed == Returned /\ errLog # <<>> /\ idx >= 1

Exported(k) ==
    \E q \in 1..Len(queries) :
        queries[q] = [kind |-> "select", key |-> distinct_combinations[k]]

\* C3 as stated: a failure while exporting one partition key does not abort
\* the remaining partitions: every key after the failing one is still
\* exported.
C3_RemainingPartitionsExported ==
    PartitionFailed =>
        \A k \in (idx + 1)..Len(distinct_combinations) : Exported(k)

\* C3 as amended: a failure while exporting one partition key is caught and
\* logged once by the function's single except clause and ends the for loop:
\* the keys before the failing one were exported and logged, no key after it
\* is queried or written, and the call returns without raising.
C3_FailureAbortsRemaining ==
    PartitionFailed =>
        /\ Len(errLog) = 1
        /\ raised = "none"
        /\ Len(partLog) = idx - 1
        /\ Len(queries) = idx + 1
        /\ \A i \in 1..Len(writers) : writers[i].scope <= idx
        /\ \A k \in (idx + 1)..Len(distinct_combinations) :
              FilePath(distinct_combinations[k]) \in DOMAIN files =>
                  \E i \in 1..Len(writers) :
                      writers[i].path = FilePath(distinct_combinations[k])

C3_Witness ==
    /\ PartitionFailed
    /\ idx < Len(distinct_combinations)
    /\ ~Exported(idx + 1)

\* C4: every writer that was opened has been closed exactly once when the
\* call has returned, also after an error in a later chunk of its scope.
C4_WritersClosedOnce ==
    Returned =>
        \A i \in 1..Len(writers) : writers[i].closes = 1 /\ ~writers[i].open

\* C5: the connection is opened at most once, and on every way out of the
\* function after it was opened it has been closed, exactly once, whether the
\* export completed or a query, a conversion or a write raised; the one way
\* out that leaves it unclosed never opened it.
C5_ConnectionClosed ==
    /\ connOpens <= 1
    /\ Returned => (conn = "closed" /\ connOpens = 1 /\ connCloses = 1)
    /\ pc = "raised" => (conn = "none" /\ connOpens = 0 /\ connCloses = 0)
    /\ conn = "open" <=> pc \notin {"start", "raised", "returned"}

C5_Witness ==
    /\ Returned
    /\ conn = "closed"
    /\ errLog = <<"ValueError">>
    /\ \E i \in 1..Len(writers) : writers[i].open

\* C6: any two distinct partition keys the DISTINCT query returned map to
\* distinct partition directories, so no two partitions write the same data
\* file.
C6_PathsInjective ==
    \A j, k \in 1..Len(distinct_combinations) :
        distinct_combinations[j] # distinct_combinations[k] =>
            PartitionDir(distinct_combinations[j]) # PartitionDir(distinct_combinations[k])

\* C7: for a fixed table and sort order, the rows written for each scope, in
\* order, and so their count, are the same for every chunk size >= 1: what
\* the call has written with its chunk size is what any other chunk size
\* within the bound writes.
C7_ChunkSizeIndependent ==
    (Returned /\ ValidJob) =>
        \A n \in 1..MaxChunk :
            IF Partitioned
            THEN \A k \in 1..Len(Keys) : WrittenBy(k) = PartitionWrites(k, n)
            ELSE WrittenBy(0) = FullWrites(n)

\* A job validate is to reject: no source, partition columns with an output
\* path that cannot be a directory, or a chunk size <= 0.
InvalidJob ==
    \/ ~db_exists
    \/ Partitioned /\ out_is_file
    \/ chunksize <= 0

SourceUntouched ==
    /\ conn = "none"
    /\ connOpens = 0
    /\ queries = <<>>
    /\ dirs = {}
    /\ DOMAIN files = {}

\* C8 as stated: an invalid job is rejected before the source is touched: the
\* call ends by raising, with no connection opened, no query issued and no
\* directory or file made.
C8_InvalidJobRejectedFirst ==
    InvalidJob => (SourceUntouched /\ pc # "returned")

\* C8 as amended: the one check made before the source is touched is the
\* source's existence: the call raises (FileNotFoundError), with nothing
\* touched, exactly when the source does not exist.  An output path that
\* cannot be a directory is found by os.makedirs after the connection was
\* opened and the DISTINCT query issued, and is logged, not raised; a chunk
\* size <= 0 is not checked: the connection is opened and the export runs.
C8_OnlySourceChecked ==
    /\ pc = "raised" =>
          (~db_exists /\ raised = "FileNotFoundError" /\ SourceUntouched)
    /\ (~db_exists /\ pc # "start") => pc = "raised"
    /\ (db_exists /\ pc # "start") => (connOpens = 1 /\ raised = "none")
    /\ (Returned /\ Partitioned /\ ColumnsExist /\ out_is_file) =>
          /\ errLog = <<"FileExistsError">>
          /\ queries = <<[kind |-> "distinct", key |-> <<>>]>>
          /\ dirs = {}
          /\ DOMAIN files = {}
    /\ (Returned /\ chunksize <= 0 /\ ~(Partitioned /\ out_is_file) /\ ColumnsExist) =>
          /\ Len(queries) >= 1
          /\ dirs # {}
          /\ "ValueError" \notin SeqRange(errLog)

C8_Witness ==
    /\ Returned
    /\ chunksize = 0
    /\ Partitioned
    /\ out_is_file
    /\ errLog = <<"FileExistsError">>
    /\ connOpens = 1

\* The combo at k is a key whose filtered query returns no row.
EmptyKey(k) == PartitionQuery(distinct_combinations[k]) = <<>>

\* C9: a partition key whose filtered query returns no row opens no writer
\* and makes no file, raises no error, is logged with 0 rows and adds 0 to the
\* total, and the for loop goes on from it: the call does not end at it.
C9_EmptyKeySkipped ==
    \A k \in 1..Len(distinct_combinations) :
        EmptyKey(k) =>
            /\ \A i \in 1..Len(writers) : writers[i].scope # k
            /\ idx = k => pc \in {"for_combo", "part_loop", "part_end"}
            /\ idx = k => exc = "none"
            /\ (idx = k /\ pc \in {"part_loop", "part_end"}) =>
                  (part_rows = 0 /\ writer = 0)
            /\ k <= Len(partLog) => partLog[k].rows = 0
            /\ total_rows = SumRows(partLog)

C9_Witness ==
    /\ Returned
    /\ errLog = <<>>
    /\ \E k \in 1..Len(distinct_combinations) :
          /\ EmptyKey(k)
          /\ k < Len(distinct_combinations)
          /\ Len(partLog) = Len(distinct_combinations)
          /\ \E i \in 1..Len(writers) : writers[i].scope > k /\ writers[i].closes = 1
    /\ total_rows >= 1

\* The call ended on write_table's schema error.
SchemaErrorLogged == "ValueError" \in SeqRange(errLog)

\* C10 as stated: a later chunk whose schema is not the file's surfaces as a
\* SchemaMismatchError of the export: the call does not return normally.
C10_MismatchSurfaces ==
    (SchemaErrorLogged /\ pc \in {"returned", "raised"}) =>
        (pc = "raised" /\ raised = "SchemaMismatchError")

\* C10 as amended: the schema of an output file is fixed from the first
\* non-empty chunk of its scope, and every chunk in the file has it.  A later
\* chunk with another schema is not coerced and not written: write_table
\* raises, the function's except clause logs the error, the call returns
\* normally without raising, and the file is left with the chunks before it.
C10_MismatchLoggedNotWritten ==
    /\ \A i \in 1..Len(writers) :
          /\ \A b \in 1..Len(writers[i].batches) :
                ChunkSchema(writers[i].batches[b]) = writers[i].schema
          /\ files[writers[i].path] = writers[i].rows
                \/ \E j \in (i + 1)..Len(writers) : writers[j].path = writers[i].path
    /\ (Returned /\ SchemaErrorLogged) =>
          /\ raised = "none"
          /\ errLog = <<"ValueError">>
          /\ writer # 0
          /\ LET w == writers[writer]
                 n == Len(w.rows)
             IN  /\ n < Len(result)
                 /\ w.rows = SubSeq(result, 1, n)
                 /\ chunksize >= 1 =>
                       ChunkSchema(SubSeq(result, n + 1, Min(n + chunksize, Len(result))))
                           # w.schema

C10_Witness ==
    /\ Returned
    /\ SchemaErrorLogged
    /\ writer # 0
    /\ Len(writers[writer].batches) >= 2

-----------------------------------------------------------------------------
(***************************************************************************)
(* run_single_backtest and parse_ic_from_log (src/search_factor.py).       *)
(*                                                                         *)
(* The log file holds lines.  A line is either the platform's final line   *)
(*   factor backtest finished, records: <records>, IC: <ic>                *)
(* with the characters that stand at <records> and from <ic> to the end of *)
(* the line, or any other line.  Characters are one-character strings.     *)
(* A float is held in thousandths; the texts of the model have at most     *)
(* three decimals, so the value is exact.                                  *)
(***************************************************************************)

Digits == {"0", "1", "2", "3", "4", "5", "6", "7", "8", "9"}

DigitVal ==
    "0" :> 0 @@ "1" :> 1 @@ "2" :> 2 @@ "3" :> 3 @@ "4" :> 4 @@
    "5" :> 5 @@ "6" :> 6 @@ "7" :> 7 @@ "8" :> 8 @@ "9" :> 9

\* The character class [-\d.] of the pattern's second group.
IcChars == Digits \cup {"-", "."}

OtherLine == [kind |-> "other", records |-> <<>>, ic |-> <<>>]

FinishedLine(r, c) == [kind |-> "finished", records |-> r, ic |-> c]

LogLines ==
    {OtherLine,
     FinishedLine(<<"7">>, <<"0">>),
     FinishedLine(<<"1", "2">>, <<"0", ".", "5">>),
     FinishedLine(<<"7">>, <<"-", "1", ".", "5", "e", "3">>),
     FinishedLine(<<"7">>, <<"-">>),
     FinishedLine(<<"7">>, <<"n", "a", "n">>),
     FinishedLine(<<>>, <<"0", ".", "5">>)}

LogTexts == SeqsUpTo(LogLines, MaxLines)

\* A log file on disk: who wrote it, whether open() and read() succeed on it,
\* and its lines.
LogFiles(by) == [by : {by}, readable : BOOLEAN, text : LogTexts]

\* The longest prefix of cs made of characters of class: a greedy + at the
\* end of a pattern.
RECURSIVE Greedy(_, _)
Greedy(cs, class) ==
    IF cs = <<>> \/ Head(cs) \notin class
    THEN <<>>
    ELSE <<Head(cs)>> \o Greedy(Tail(cs), class)

\* Does the pattern match at this line, and with which groups?  (\d+) must
\* reach ", IC: ", so the whole of <records> is digits; ([-\d.]+) takes the
\* longest run of its class and needs one character.
LineMatches(line) ==
    /\ line.kind = "finished"
    /\ line.records # <<>>
    /\ Greedy(line.records, Digits) = line.records
    /\ Greedy(line.ic, IcChars) # <<>>

\* re.search: the first match in the content, <<>> when there is none.
RECURSIVE ReSearch(_)
ReSearch(text) ==
    IF text = <<>> THEN <<>>
    ELSE IF LineMatches(Head(text))
         THEN <<[group1 |-> Head(text).records,
                 group2 |-> Greedy(Head(text).ic, IcChars)]>>
         ELSE ReSearch(Tail(text))

\* int() of a run of digits.
RECURSIVE PyInt(_)
PyInt(ds) ==
    IF ds = <<>> THEN 0
    ELSE PyInt(SubSeq(ds, 1, Len(ds) - 1)) * 10 + DigitVal[ds[Len(ds)]]

\* float() of a run of [-\d.]: <<>> when it raises ValueError, else the value
\* in thousandths.  One sign at most and only in front, one point at most,
\* one digit at least.
PyFloat(tok) ==
    LET neg  == tok # <<>> /\ tok[1] = "-"
        body == IF neg THEN Tail(tok) ELSE tok
        dots == {i \in 1..Len(body) : body[i] = "."}
        d    == IF dots = {} THEN Len(body) + 1 ELSE CHOOSE i \in dots : TRUE
        ip   == SubSeq(body, 1, d - 1)
        fp   == SubSeq(body, d + 1, Len(body))
        fp3  == [i \in 1..3 |-> IF i <= Len(fp) THEN fp[i] ELSE "0"]
        abs  == PyInt(ip) * 1000 + PyInt(fp3)
    IN  IF \/ \E i \in 1..Len(body) : body[i] = "-"
           \/ Cardinality(dots) > 1
           \/ \A i \in 1..Len(body) : body[i] \notin Digits
        THEN <<>>
        ELSE <<IF neg THEN 0 - abs ELSE abs>>

\* parse_ic_from_log: (ic, records), each <<>> for None.  Every exception
\* (open, read, float) is caught inside and gives (None, None).
ParseIcFromLog(f) ==
    LET m == ReSearch(f.text)
    IN  IF f.readable /\ m # <<>> /\ PyFloat(m[1].group2) # <<>>
        THEN [ic |-> PyFloat(m[1].group2), records |-> <<PyInt(m[1].group1)>>]
        ELSE [ic |-> <<>>, records |-> <<>>]

\* The FactorResult built at the top of run_single_backtest.
PendingResult ==
    [status |-> "pending", ic |-> <<>>, records |-> <<>>, error_message |-> <<>>]

\* The call starts with a result in status "pending"; the work directory may
\* hold the log of an earlier run.
InitBacktest ==
    /\ ExportIdle
    /\ SearchIdle
    /\ bt_pc = "try"
    /\ log_file \in {<<>>} \cup {<<f>> : f \in LogFiles("earlier")}
    /\ bt_result = PendingResult
    /\ bt_proc = "none"
    /\ bt_exc = "none"

\* The removal left out: the log of an earlier run stays in place.
BtRemoveLogSkipped ==
    /\ bt_pc = "try"
    /\ bt_pc' = "run"
    /\ UNCHANGED <<exportVars, searchVars, log_file, bt_result, bt_proc, bt_exc>>

\* An existing log file is removed; os.remove may raise OSError.
BtRemoveLog ==
    /\ bt_pc = "try"
    /\ \/ /\ bt_pc' = "run"
          /\ log_file' = <<>>
          /\ bt_exc' = bt_exc
       \/ /\ log_file # <<>>
          /\ bt_pc' = "except"
          /\ bt_exc' = "OSError"
          /\ log_file' = log_file
    /\ UNCHANGED <<exportVars, searchVars, bt_result, bt_proc>>

\* What the child process leaves at the log path: nothing new, or a file it
\* wrote.
ChildLogs == {log_file} \cup {<<f>> : f \in LogFiles("this")}

\* subprocess.run: the child returns (whatever its exit code), or it is
\* killed at the timeout, or it cannot be started.
BtRunSubprocess ==
    /\ bt_pc = "run"
    /\ \/ /\ bt_proc' = "returned"
          /\ log_file' \in ChildLogs
          /\ bt_pc' = "check"
          /\ bt_exc' = bt_exc
       \/ /\ bt_proc' = "timeout"
          /\ log_file' \in ChildLogs
          /\ bt_pc' = "except"
          /\ bt_exc' = "TimeoutExpired"
       \/ /\ bt_proc' = "oserror"
          /\ log_file' = log_file
          /\ bt_pc' = "except"
          /\ bt_exc' = "OSError"
    /\ UNCHANGED <<exportVars, searchVars, bt_result>>

\* After the child returned: the log is looked for and parsed.
BtCheckLog ==
    /\ bt_pc = "check"
    /\ bt_result' =
          IF log_file # <<>>
          THEN LET p == ParseIcFromLog(log_file[1])
               IN  IF p.ic # <<>>
                   THEN [bt_result EXCEPT !.ic = p.ic, !.records = p.records,
                                          !.status = "success"]
                   ELSE [bt_result EXCEPT !.status = "failed",
                            !.error_message = <<"Could not parse IC from log">>]
          ELSE [bt_result EXCEPT !.status = "failed",
                                 !.error_message = <<"Log file not found">>]
    /\ bt_pc' = "return"
    /\ UNCHANGED <<exportVars, searchVars, log_file, bt_proc, bt_exc>>

\* except subprocess.TimeoutExpired.
BtExceptTimeout ==
    /\ bt_pc = "except"
    /\ bt_exc = "TimeoutExpired"
    /\ bt_result' = [bt_result EXCEPT !.status = "error",
                                      !.error_message = <<"Timeout">>]
    /\ bt_pc' = "return"
    /\ UNCHANGED <<exportVars, searchVars, log_file, bt_proc, bt_exc>>

\* except Exception as e: the message is str(e).
BtExceptOther ==
    /\ bt_pc = "except"
    /\ bt_exc # "TimeoutExpired"
    /\ bt_result' = [bt_result EXCEPT !.status = "error",
                                      !.error_message = <<bt_exc>>]
    /\ bt_pc' = "return"
    /\ UNCHANGED <<exportVars, searchVars, log_file, bt_proc, bt_exc>>

\* return result.
BtReturn ==
    /\ bt_pc = "return"
    /\ bt_pc' = "returned"
    /\ UNCHANGED <<exportVars, searchVars, log_file, bt_result, bt_proc, bt_exc>>

NextBacktest ==
    \/ BtRemoveLog
    \/ BtRunSubprocess
    \/ BtCheckLog
    \/ BtExceptTimeout
    \/ BtExceptOther
    \/ BtReturn

SpecBacktest == InitBacktest /\ [][NextBacktest]_vars

\* The log parses: the file can be read, the line is found and its IC is a
\* number.
LogParses == log_file # <<>> /\ ParseIcFromLog(log_file[1]).ic # <<>>

\* C11: run_single_backtest never returns a result in status "pending".  The
\* status is "success", with ic and records set from the log, exactly when
\* the subprocess returned, the log file exists and its IC line parses; it is
\* "failed", with ic None, exactly when the subprocess returned and the log
\* is missing or does not parse; it is "error" exactly when the timeout or
\* another exception was raised.  A "success" reports the IC of a log written
\* by this run's subprocess, never one left by an earlier run.
C11_StatusFollowsLog ==
    bt_pc = "returned" =>
        /\ bt_result.status \in {"success", "failed", "error"}
        /\ bt_result.status = "success" <=>
              (bt_exc = "none" /\ bt_proc = "returned" /\ LogParses)
        /\ bt_result.status = "success" =>
              /\ bt_result.ic = ParseIcFromLog(log_file[1]).ic
              /\ bt_result.records = ParseIcFromLog(log_file[1]).records
              /\ bt_result.ic # <<>>
              /\ bt_result.records # <<>>
              /\ log_file[1].by = "this"
        /\ bt_result.status = "failed" <=>
              (bt_exc = "none" /\ bt_proc = "returned" /\ ~LogParses)
        /\ bt_result.status = "failed" =>
              /\ bt_result.ic = <<>>
              /\ bt_result.error_message =
                    IF log_file = <<>> THEN <<"Log file not found">>
                    ELSE <<"Could not parse IC from log">>
        /\ bt_result.status = "error" <=> bt_exc # "none"
        /\ bt_result.status = "error" =>
              /\ bt_result.ic = <<>>
              /\ bt_result.error_message = <<"Timeout">> <=> bt_proc = "timeout"

\* A run whose subprocess wrote a log with the line "records: 12, IC: 0.5"
\* and that returned "success" with 12 records and the IC 0.5.
C11_Witness ==
    /\ bt_pc = "returned"
    /\ bt_result.status = "success"
    /\ bt_result.ic = <<500>>
    /\ bt_result.records = <<12>>
    /\ log_file[1].by = "this"

-----------------------------------------------------------------------------
(***************************************************************************)
(* run_search, generate_tasks and save_results (src/search_factor.py).     *)
(*                                                                         *)
(* The call of run_single_backtest inside the loop is one step that        *)
(* returns a FactorResult in one of the statuses established above.  An    *)
(* Optional value is <<>> for None and <<v>> otherwise; a CSV cell is a    *)
(* string.                                                                 *)
(***************************************************************************)

KLINE_FACTOR_TYPES ==
    <<"PriceReturn", "TrendStrength", "PriceVolatility", "PriceRange",
      "PricePosition", "AvgVolume", "VolumeVolatility", "VolumeTrend", "OBV",
      "PriceVolumeCorrelation", "AvgIntradayRange", "AvgBodyRatio">>

TRADE_FACTOR_TYPES ==
    <<"PriceReturn", "TrendStrength", "PriceVolatility", "PriceRange",
      "PriceAcceleration", "PricePosition", "AvgVol", "VolVolatility",
      "VolSkew", "LargeTradeRatio", "VolTrend", "BuyCount", "SellCount",
      "TradeImbalance", "BuyVol", "SellVol", "VolImbalance", "NetBuyRatio",
      "AvgTradeSizeRatio", "Vwap", "PriceVwapDeviation", "VwapSlope", "OBV",
      "PriceVolumeCorrelation", "TradeFrequency", "AvgTradeInterval",
      "TradeIntervalStd">>

\* The intermediate save happens when (i + 1) % 10 == 0.
SaveEvery == 10

SearchConfig(dt, ki, ws, fs) ==
    [data_types |-> dt, kline_intervals |-> ki, window_sizes |-> ws,
     step_ms_list |-> <<60000>>, forward_steps_list |-> fs,
     market_type |-> "binance_spot", symbol |-> "BTCUSDT"]

\* The configurations of the model: no data type, kline without an interval,
\* kline alone with one and two intervals, kline and trade, and kline with
\* five forward steps (sixty tasks, a multiple of ten).
Configs ==
    {SearchConfig(<<>>, <<"1m">>, <<60>>, <<10>>),
     SearchConfig(<<"kline">>, <<>>, <<60>>, <<10>>),
     SearchConfig(<<"kline">>, <<"1m">>, <<60>>, <<10>>),
     SearchConfig(<<"kline">>, <<"1m", "1s">>, <<60>>, <<10>>),
     SearchConfig(<<"kline", "trade">>, <<"1m">>, <<60>>, <<10>>),
     SearchConfig(<<"kline">>, <<"1m">>, <<60>>, <<1, 3, 5, 10, 30>>)}

\* The lists appended one after the other, as nested for loops append.
RECURSIVE Concat(_)
Concat(ss) == IF ss = <<>> THEN <<>> ELSE Head(ss) \o Concat(Tail(ss))

Task(data_type, factor_type, interval, window_size, step_ms, forward_steps) ==
    [data_type |-> data_type, factor_type |-> factor_type,
     interval |-> interval, window_size |-> window_size,
     step_ms |-> step_ms, forward_steps |-> forward_steps]

\* generate_tasks: data type, window size, step, forward steps, factor type
\* and, for kline only, interval, from the outermost loop to the innermost.
GenerateTasks(c) ==
    Concat([d \in 1..Len(c.data_types) |->
      LET data_type == c.data_types[d]
          factor_types == IF data_type = "kline" THEN KLINE_FACTOR_TYPES
                          ELSE TRADE_FACTOR_TYPES
      IN
      Concat([w \in 1..Len(c.window_sizes) |->
        Concat([s \in 1..Len(c.step_ms_list) |->
          Concat([f \in 1..Len(c.forward_steps_list) |->
            Concat([t \in 1..Len(factor_types) |->
              IF data_type = "kline"
              THEN [k \in 1..Len(c.kline_intervals) |->
                      Task(data_type, factor_types[t], <<c.kline_intervals[k]>>,
                           c.window_sizes[w], c.step_ms_list[s],
                           c.forward_steps_list[f])]
              ELSE <<Task(data_type, factor_types[t], <<>>,
                          c.window_sizes[w], c.step_ms_list[s],
                          c.forward_steps_list[f])>>])])])])])

\* What run_single_backtest returns besides the task's own fields.
BacktestOutcomes ==
    {[status |-> "success", ic |-> <<500>>, records |-> <<12>>,
      error_message |-> <<>>],
     [status |-> "failed", ic |-> <<>>, records |-> <<>>,
      error_message |-> <<"Log file not found">>],
     [status |-> "error", ic |-> <<>>, records |-> <<>>,
      error_message |-> <<"Timeout">>]}

\* The FactorResult of a task.
FactorResult(task, c, o) ==
    [data_type |-> task.data_type, factor_type |-> task.factor_type,
     interval |-> task.interval, window_size |-> task.window_size,
     step_ms |-> task.step_ms, forward_steps |-> task.forward_steps,
     market_type |-> c.market_type, symbol |-> c.symbol,
     ic |-> o.ic, records |-> o.records, status |-> o.status,
     error_message |-> o.error_message]

\* x or "" for an optional string: None and the empty string give "".
OrEmpty(x) == IF x = <<>> \/ x = <<"">> THEN "" ELSE x[1]

\* x if x is not None else "", as the csv module writes it.
NumCell(x) == IF x = <<>> THEN "" ELSE ToString(x[1])

\* The row save_results writes for one result.
CsvRow(r) ==
    [data_type |-> r.data_type, factor_type |-> r.factor_type,
     interval |-> OrEmpty(r.interval),
     window_size |-> ToString(r.window_size),
     step_ms |-> ToString(r.step_ms),
     forward_steps |-> ToString(r.forward_steps),
     market_type |-> r.market_type, symbol |-> r.symbol,
     ic |-> NumCell(r.ic), records |-> NumCell(r.records),
     status |-> r.status, error_message |-> OrEmpty(r.error_message)]

\* save_results: the file is rewritten with one row per result, in order.
SaveResults(rs) == [k \in 1..Len(rs) |-> CsvRow(rs[k])]

BadCount(rs) == Cardinality({k \in 1..Len(rs) : rs[k].status # "success"})

InitSearch ==
    /\ ExportIdle
    /\ BacktestIdle
    /\ config \in Configs
    /\ tasks = <<>>
    /\ rs_pc = "start"
    /\ rs_i = 0
    /\ results = <<>>
    /\ output_file = <<>>
    /\ saves = <<>>

\* tasks = generate_tasks(config); results = [].
RsStart ==
    /\ rs_pc = "start"
    /\ tasks' = GenerateTasks(config)
    /\ rs_pc' = "loop"
    /\ UNCHANGED <<exportVars, backtestVars, config, rs_i, results, output_file, saves>>

\* The loop body with a break on a result that is not a success.
RsTaskStoppingOnFailure ==
    /\ rs_pc = "loop"
    /\ rs_i < Len(tasks)
    /\ \E o \in BacktestOutcomes :
          /\ o.status # "success" => BadCount(results) < MaxBad
          /\ LET rs == Append(results, FactorResult(tasks[rs_i + 1], config, o))
                 save == (rs_i + 1) % SaveEvery = 0
             IN  /\ results' = rs
                 /\ output_file' = IF save THEN <<SaveResults(rs)>> ELSE output_file
                 /\ saves' = IF save THEN Append(saves, Len(rs)) ELSE saves
                 /\ rs_i' = IF o.status = "success" THEN rs_i + 1 ELSE Len(tasks)
    /\ UNCHANGED <<exportVars, backtestVars, config, tasks, rs_pc>>

\* One turn of the loop: the task at index i is run, its result appended,
\* and the results saved when i + 1 is a multiple of ten.
RsTask ==
    /\ rs_pc = "loop"
    /\ rs_i < Len(tasks)
    /\ \E o \in BacktestOutcomes :
          /\ o.status # "success" => BadCount(results) < MaxBad
          /\ LET rs == Append(results, FactorResult(tasks[rs_i + 1], config, o))
                 save == (rs_i + 1) % SaveEvery = 0
             IN  /\ results' = rs
                 /\ output_file' = IF save THEN <<SaveResults(rs)>> ELSE output_file
                 /\ saves' = IF save THEN Append(saves, Len(rs)) ELSE saves
    /\ rs_i' = rs_i + 1
    /\ UNCHANGED <<exportVars, backtestVars, config, tasks, rs_pc>>

\* The loop is exhausted: the final save.
RsFinalSave ==
    /\ rs_pc = "loop"
    /\ rs_i >= Len(tasks)
    /\ output_file' = <<SaveResults(results)>>
    /\ saves' = Append(saves, Len(results))
    /\ rs_pc' = "done"
    /\ UNCHANGED <<exportVars, backtestVars, config, tasks, rs_i, results>>

NextSearch ==
    \/ RsStart
    \/ RsTask
    \/ RsFinalSave

SpecSearch == InitSearch /\ [][NextSearch]_vars

\* The first n multiples of ten.
Tens(n) == [j \in 1..n |-> SaveEvery * j]

\* Row k of a saved file is the row of task k.
RowOfTask(row, task) ==
    /\ row.data_type = task.data_type
    /\ row.factor_type = task.factor_type
    /\ row.interval = OrEmpty(task.interval)
    /\ row.window_size = ToString(task.window_size)
    /\ row.step_ms = ToString(task.step_ms)
    /\ row.forward_steps = ToString(task.forward_steps)

\* C12: run_search runs the tasks one at a time in the order of
\* generate_tasks and appends exactly one result per task whatever its
\* status, so a failed, errored or timed-out task does not stop the sweep:
\* after such a result the next task can be run while tasks remain, and the
\* loop ends with one result per task.  save_results is called after every tenth task and once after the
\* last one, each time with all results so far, so the saved rows are always
\* a prefix of the task list, and the final save holds one row per task in
\* task order.
C12_OneResultPerTaskSavedInOrder ==
    rs_pc \in {"loop", "done"} =>
        /\ rs_i = 0 => tasks = GenerateTasks(config)
        /\ Len(results) = rs_i
        /\ rs_i <= Len(tasks)
        /\ \A k \in 1..Len(results) :
              /\ results[k].data_type = tasks[k].data_type
              /\ results[k].factor_type = tasks[k].factor_type
              /\ results[k].interval = tasks[k].interval
              /\ results[k].window_size = tasks[k].window_size
              /\ results[k].step_ms = tasks[k].step_ms
              /\ results[k].forward_steps = tasks[k].forward_steps
        /\ (/\ rs_pc = "loop"
            /\ 0 < rs_i
            /\ rs_i < Len(tasks)
            /\ results[rs_i].status # "success") => ENABLED RsTask
        /\ rs_pc = "loop" =>
              /\ saves = Tens(rs_i \div SaveEvery)
              /\ output_file =
                    IF rs_i < SaveEvery THEN <<>>
                    ELSE <<SaveResults(SubSeq(results, 1,
                                              SaveEvery * (rs_i \div SaveEvery)))>>
        /\ rs_pc = "done" =>
              /\ Len(results) = Len(tasks)
              /\ saves = Append(Tens(Len(tasks) \div SaveEvery), Len(tasks))
              /\ output_file = <<SaveResults(results)>>
              /\ Len(output_file[1]) = Len(tasks)
        /\ output_file # <<>> =>
              /\ Len(output_file[1]) <= Len(tasks)
              /\ \A k \in 1..Len(output_file[1]) :
                    /\ RowOfTask(output_file[1][k], tasks[k])
                    /\ output_file[1][k].status = results[k].status

\* A sweep of more than ten tasks over both data types that met a task that
\* was not a success before its tenth task, and is finished.
C12_Witness ==
    /\ rs_pc = "done"
    /\ Len(tasks) > SaveEvery
    /\ Len(config.data_types) = 2
    /\ \E k \in 1..(SaveEvery - 1) : results[k].status # "success"
    /\ Len(saves) >= 2

====
